---- MODULE Spec2Model ----
(***************************************************************************)
(* Model of homework.py: the fitness-tracker calculator.                   *)
(*                                                                         *)
(* Numbers are Python numbers.  A Python int is exact; a Python float is   *)
(* an IEEE-754 binary64 value and every float operation rounds its exact   *)
(* result to the nearest binary64 value, ties to even.  Floats are kept    *)
(* as sign * mantissa * 2^exponent with an exact (multi-limb) mantissa, so *)
(* that the rounding of each operation of the source is the rounding the   *)
(* interpreter performs.  Overflow to infinity and subnormal results are   *)
(* outside the value ranges explored here.                                 *)
(***************************************************************************)
EXTENDS Integers, Sequences, FiniteSets, TLC

(***************************************************************************)
(* Exact natural numbers: little-endian sequences of limbs in base 2^15,   *)
(* without leading zero limbs; <<>> is zero.                               *)
(***************************************************************************)
LimbBits == 3 * 5
LimbBase == 2 ^ LimbBits
\* binary64 significand: 52 stored bits and the implicit leading one
MantBits == 52 + 1

RECURSIVE BTrim(_)
BTrim(x) ==
    IF x = <<>> THEN x
    ELSE IF x[Len(x)] = 0 THEN BTrim(SubSeq(x, 1, Len(x) - 1)) ELSE x

RECURSIVE BFromNat(_)
BFromNat(n) ==
    IF n = 0 THEN <<>> ELSE <<n % LimbBase>> \o BFromNat(n \div LimbBase)

RECURSIVE BToNat(_)
BToNat(x) ==
    IF x = <<>> THEN 0 ELSE Head(x) + LimbBase * BToNat(Tail(x))

Limb(x, i) == IF i <= Len(x) THEN x[i] ELSE 0

RECURSIVE BAddC(_, _, _, _)
BAddC(x, y, i, c) ==
    IF i > Len(x) /\ i > Len(y)
    THEN (IF c = 0 THEN <<>> ELSE <<c>>)
    ELSE LET s == Limb(x, i) + Limb(y, i) + c
         IN  <<s % LimbBase>> \o BAddC(x, y, i + 1, s \div LimbBase)

BAdd(x, y) == BAddC(x, y, 1, 0)

RECURSIVE BSubC(_, _, _, _)
BSubC(x, y, i, b) ==
    IF i > Len(x) THEN <<>>
    ELSE LET d == Limb(x, i) - Limb(y, i) - b
         IN  IF d < 0 THEN <<d + LimbBase>> \o BSubC(x, y, i + 1, 1)
                      ELSE <<d>> \o BSubC(x, y, i + 1, 0)

\* x - y for x >= y
BSub(x, y) == BTrim(BSubC(x, y, 1, 0))

RECURSIVE BCmpAt(_, _, _)
BCmpAt(x, y, i) ==
    IF i = 0 THEN 0
    ELSE IF x[i] < y[i] THEN -1
    ELSE IF x[i] > y[i] THEN 1
    ELSE BCmpAt(x, y, i - 1)

BCmp(x, y) ==
    IF Len(x) < Len(y) THEN -1
    ELSE IF Len(x) > Len(y) THEN 1
    ELSE BCmpAt(x, y, Len(x))

RECURSIVE BMulSmallC(_, _, _, _)
BMulSmallC(x, k, i, c) ==
    IF i > Len(x)
    THEN (IF c = 0 THEN <<>> ELSE <<c>>)
    ELSE LET p == x[i] * k + c
         IN  <<p % LimbBase>> \o BMulSmallC(x, k, i + 1, p \div LimbBase)

\* x * k for a single limb k
BMulSmall(x, k) == IF k = 0 THEN <<>> ELSE BMulSmallC(x, k, 1, 0)

BShiftLimbs(x, n) == IF x = <<>> THEN x ELSE [i \in 1..n |-> 0] \o x

RECURSIVE BMulAt(_, _, _)
BMulAt(x, y, i) ==
    IF i > Len(y) THEN <<>>
    ELSE BAdd(BShiftLimbs(BMulSmall(x, y[i]), i - 1), BMulAt(x, y, i + 1))

BMul(x, y) == BMulAt(x, y, 1)

RECURSIVE BDivSmallAt(_, _, _, _)
BDivSmallAt(x, k, i, r) ==
    IF i = 0 THEN [q |-> <<>>, r |-> r]
    ELSE LET cur  == r * LimbBase + x[i]
             rest == BDivSmallAt(x, k, i - 1, cur % k)
         IN  [q |-> Append(rest.q, cur \div k), r |-> rest.r]

TrimmedQuotient(d) ==
    [q |-> BTrim(d.q), r |-> IF d.r = 0 THEN <<>> ELSE <<d.r>>]

\* quotient and remainder of x by a single nonzero limb k
BDivSmall(x, k) == TrimmedQuotient(BDivSmallAt(x, k, Len(x), 0))

BShl(x, n) == BShiftLimbs(BMulSmall(x, 2 ^ (n % LimbBits)), n \div LimbBits)

BShr(x, n) ==
    IF n \div LimbBits >= Len(x) THEN <<>>
    ELSE BDivSmall(SubSeq(x, n \div LimbBits + 1, Len(x)),
                   2 ^ (n % LimbBits)).q

\* are the n low bits of x all zero
BLowZero(x, n) == BShl(BShr(x, n), n) = x

BIsOdd(x) == x # <<>> /\ x[1] % 2 = 1

RECURSIVE NatBitLen(_)
NatBitLen(n) == IF n = 0 THEN 0 ELSE 1 + NatBitLen(n \div 2)

BBitLen(x) ==
    IF x = <<>> THEN 0 ELSE LimbBits * (Len(x) - 1) + NatBitLen(x[Len(x)])

BBit(x, i) == (Limb(x, (i - 1) \div LimbBits + 1) \div 2 ^ ((i - 1) % LimbBits)) % 2

RECURSIVE NatTrailingZeros(_)
NatTrailingZeros(n) == IF n % 2 = 1 THEN 0 ELSE 1 + NatTrailingZeros(n \div 2)

RECURSIVE BTrailingZeros(_)
\* number of trailing zero bits of a nonzero x
BTrailingZeros(x) ==
    IF Head(x) = 0 THEN LimbBits + BTrailingZeros(Tail(x))
    ELSE NatTrailingZeros(Head(x))

RECURSIVE QuotDigit(_, _, _, _)
\* the largest q + j, 0 <= j < 2^b, with (q + j) * d <= r
QuotDigit(r, d, q, b) ==
    IF b = 0 THEN q
    ELSE LET c == q + 2 ^ (b - 1)
         IN  IF BCmp(BMulSmall(d, c), r) <= 0
             THEN QuotDigit(r, d, c, b - 1)
             ELSE QuotDigit(r, d, q, b - 1)

WithDigit(rest, dig) == [q |-> Append(rest.q, dig), r |-> rest.r]

RECURSIVE BDivLimbs(_, _, _, _)
RECURSIVE BDivStep(_, _, _, _, _)
\* schoolbook long division by a multi-limb d, from limb i of x downwards,
\* r the remainder so far
BDivLimbs(x, d, i, r) ==
    IF i = 0 THEN [q |-> <<>>, r |-> r]
    ELSE BDivStep(x, d, i, BTrim(<<x[i]>> \o r),
                  QuotDigit(BTrim(<<x[i]>> \o r), d, 0, LimbBits))

BDivStep(x, d, i, cur, dig) ==
    WithDigit(BDivLimbs(x, d, i - 1, BSub(cur, BMulSmall(d, dig))), dig)

TrimmedQ(dm) == [q |-> BTrim(dm.q), r |-> dm.r]

\* quotient and remainder of x by nonzero d
BDivMod(x, d) ==
    IF Len(d) = 1 THEN BDivSmall(x, d[1])
    ELSE TrimmedQ(BDivLimbs(x, d, Len(x), <<>>))

(***************************************************************************)
(* Python values: an int, a float (binary64: s * m * 2^e, m odd or zero,   *)
(* the sign kept on zero) or a raised exception travelling up the          *)
(* expression that raised it.                                              *)
(***************************************************************************)
PyInt(n) == [t |-> "int", v |-> n]

Float(s, m, e) == [t |-> "float", s |-> s, m |-> m, e |-> e]

Raise(name) == [t |-> "exc", name |-> name]

IsExc(x) == x.t = "exc"

Abs(n) == IF n < 0 THEN -n ELSE n

Min(a, b) == IF a <= b THEN a ELSE b

Stripped(s, n, e, tz) == Float(s, BShr(n, tz), e + tz)

\* the float s * n * 2^e for n of at most MantBits significant bits
Canon(s, n, e) ==
    IF n = <<>> THEN Float(s, <<>>, 0)
    ELSE Stripped(s, n, e, BTrailingZeros(n))

\* The binary64 nearest to s * (n + f) * 2^e, ties to even, where 0 <= f < 1
\* and sticky tells whether f > 0 (n then has more than MantBits bits).
\* hi: the bits kept; guard: the first bit dropped; rest: any later one set
RoundUpIf(hi, guard, rest) ==
    IF guard /\ (rest \/ BIsOdd(hi)) THEN BAdd(hi, <<1>>) ELSE hi

\* n with its t low bits dropped, rounded to nearest, ties to even
DropBits(n, t, sticky) ==
    RoundUpIf(BShr(n, t), BBit(n, t) = 1, sticky \/ ~BLowZero(n, t - 1))

RoundTo(s, n, e, sticky, t) ==
    IF t <= 0 THEN Canon(s, n, e)
    ELSE Canon(s, DropBits(n, t, sticky), e + t)

RoundNearestEven(s, n, e, sticky) ==
    RoundTo(s, n, e, sticky, BBitLen(n) - MantBits)

\* int -> float conversion
FromInt(n) == RoundNearestEven(IF n < 0 THEN -1 ELSE 1, BFromNat(Abs(n)), 0, FALSE)

ToFloat(x) == IF x.t = "int" THEN FromInt(x.v) ELSE x

FNeg(a) == Float(-a.s, a.m, a.e)

FMul(a, b) == RoundNearestEven(a.s * b.s, BMul(a.m, b.m), a.e + b.e, FALSE)

\* the signed sum of sa * x and sb * y, as its sign and magnitude
SignedSum(sa, x, sb, y, c) ==
    IF sa = sb THEN [s |-> sa, n |-> BAdd(x, y)]
    ELSE IF c = 0 THEN [s |-> 1, n |-> <<>>]
    ELSE IF c > 0 THEN [s |-> sa, n |-> BSub(x, y)]
    ELSE [s |-> sb, n |-> BSub(y, x)]

RoundSum(sum, e) == RoundNearestEven(sum.s, sum.n, e, FALSE)

AddAligned(sa, x, sb, y, e) ==
    RoundSum(SignedSum(sa, x, sb, y, BCmp(x, y)), e)

\* a + b with both mantissas brought to the exponent e
AddAt(a, b, e) ==
    AddAligned(a.s, IF a.m = <<>> THEN <<>> ELSE BShl(a.m, a.e - e),
               b.s, IF b.m = <<>> THEN <<>> ELSE BShl(b.m, b.e - e), e)

FAdd(a, b) ==
    IF a.m = <<>> /\ b.m = <<>>
    THEN Float(IF a.s = -1 /\ b.s = -1 THEN -1 ELSE 1, <<>>, 0)
    ELSE AddAt(a, b, IF a.m = <<>> THEN b.e
                     ELSE IF b.m = <<>> THEN a.e ELSE Min(a.e, b.e))

FSub(a, b) == FAdd(a, FNeg(b))

\* a / b for b nonzero
RoundQuotient(s, d, e) == RoundNearestEven(s, d.q, e, d.r # <<>>)

\* the quotient of a.m * 2^k by b.m has MantBits + 2 bits or more
DivShifted(a, b, k) ==
    RoundQuotient(a.s * b.s, BDivMod(BShl(a.m, k), b.m), a.e - b.e - k)

QuotientShift(gap) ==
    IF gap >= MantBits + 2 THEN 0 ELSE MantBits + 2 - gap

\* a / b for b nonzero
FDiv(a, b) ==
    IF a.m = <<>> THEN Float(a.s * b.s, <<>>, 0)
    ELSE DivShifted(a, b, QuotientShift(BBitLen(a.m) - BBitLen(b.m)))

SignOf(d) == IF d.m = <<>> THEN 0 ELSE d.s

\* -1, 0, 1 as a < b, a = b, a > b
FCmp(a, b) == SignOf(FSub(a, b))

FloorFrom(s, n) ==
    IF s = 1 THEN Canon(1, n, 0) ELSE Canon(-1, BAdd(n, <<1>>), 0)

\* floor(a)
FFloor(a) == IF a.e >= 0 THEN a ELSE FloorFrom(a.s, BShr(a.m, -a.e))

ModAt(vx, wx, e) ==
    Canon(vx.s, BDivMod(BShl(vx.m, vx.e - e), BShl(wx.m, wx.e - e)).r, e)

\* fmod(vx, wx) for wx nonzero: exact, with the sign of vx
FMod(vx, wx) ==
    IF vx.m = <<>> THEN vx ELSE ModAt(vx, wx, Min(vx.e, wx.e))

\* floor(div), one more when div - floor(div) > 0.5
FloorAdjust(div, fl) ==
    IF FCmp(FSub(div, fl), FDiv(FromInt(1), FromInt(2))) > 0
    THEN FAdd(fl, FromInt(1)) ELSE fl

FloorOfDiv(vx, wx, div) ==
    IF div.m # <<>> THEN FloorAdjust(div, FFloor(div))
    ELSE Float(vx.s * wx.s, <<>>, 0)

\* div = (vx - mod) / wx, less one when mod and wx differ in sign
DivFromMod(vx, wx, mod, div0) ==
    IF mod.m # <<>> /\ ((wx.s = -1) # (mod.s = -1))
    THEN FSub(div0, FromInt(1)) ELSE div0

FloorDivWithMod(vx, wx, mod) ==
    FloorOfDiv(vx, wx, DivFromMod(vx, wx, mod, FDiv(FSub(vx, mod), wx)))

\* float.__floordiv__ for wx nonzero (the interpreter's float_floor_div)
FFloorDiv(vx, wx) == FloorDivWithMod(vx, wx, FMod(vx, wx))

IsZero(x) == IF x.t = "int" THEN x.v = 0 ELSE x.m = <<>>

\* a * b
PyMul(a, b) ==
    IF IsExc(a) THEN a ELSE IF IsExc(b) THEN b
    ELSE IF a.t = "int" /\ b.t = "int" THEN PyInt(a.v * b.v)
    ELSE FMul(ToFloat(a), ToFloat(b))

\* a + b
PyAdd(a, b) ==
    IF IsExc(a) THEN a ELSE IF IsExc(b) THEN b
    ELSE IF a.t = "int" /\ b.t = "int" THEN PyInt(a.v + b.v)
    ELSE FAdd(ToFloat(a), ToFloat(b))

\* a - b
PySub(a, b) ==
    IF IsExc(a) THEN a ELSE IF IsExc(b) THEN b
    ELSE IF a.t = "int" /\ b.t = "int" THEN PyInt(a.v - b.v)
    ELSE FSub(ToFloat(a), ToFloat(b))

\* a / b: true division, always a float
PyTrueDiv(a, b) ==
    IF IsExc(a) THEN a ELSE IF IsExc(b) THEN b
    ELSE IF IsZero(b) THEN Raise("ZeroDivisionError")
    ELSE FDiv(ToFloat(a), ToFloat(b))

\* a // b
PyFloorDiv(a, b) ==
    IF IsExc(a) THEN a ELSE IF IsExc(b) THEN b
    ELSE IF IsZero(b) THEN Raise("ZeroDivisionError")
    ELSE IF a.t = "int" /\ b.t = "int"
         THEN PyInt(IF b.v > 0 THEN a.v \div b.v ELSE (-a.v) \div (-b.v))
    ELSE FFloorDiv(ToFloat(a), ToFloat(b))

\* a ** 2 (the only exponent of the source): the correctly rounded square
PySquare(a) ==
    IF IsExc(a) THEN a
    ELSE IF a.t = "int" THEN PyInt(a.v * a.v)
    ELSE FMul(a, a)

\* a decimal literal digits * 10^-places, read as the nearest binary64
FloatLiteral(digits, places) == FDiv(FromInt(digits), FromInt(10 ^ places))

\* format spec ".3f": the value in thousandths, rounded half to even on its
\* exact binary value, with its sign
Thousandths(n, e) ==
    IF e >= 0 THEN BToNat(BShl(n, e)) ELSE BToNat(DropBits(n, -e, FALSE))

FixedOf(f) ==
    [neg |-> f.s = -1, thousandths |-> Thousandths(BMulSmall(f.m, 1000), f.e)]

Fixed3(x) == FixedOf(ToFloat(x))

(***************************************************************************)
(* The classes of homework.py.                                             *)
(***************************************************************************)
None == [t |-> "None"]

SWM == "SWM"
RUN == "RUN"
WLK == "WLK"

\* class attributes
Training_LEN_STEP == FloatLiteral(65, 2)
M_IN_KM == 1000
MINUTES_IN_HOUR == 60
RUN_COEFF_CAL_1 == 18
RUN_COEFF_CAL_2 == 20
WLK_COEFF_CAL_1 == FloatLiteral(35, 3)
WLK_COEFF_CAL_2 == 2
WLK_COEFF_CAL_3 == FloatLiteral(29, 3)
Swimming_LEN_STEP == FloatLiteral(138, 2)
SWM_COEFF_CAL_1 == FloatLiteral(11, 1)
SWM_COEFF_CAL_2 == 2

\* mutant: Swimming does not override LEN_STEP
LEN_STEP_base(self) == Training_LEN_STEP

\* self.LEN_STEP: the attribute of the object's own class
LEN_STEP(self) ==
    IF self.cls = "Swimming" THEN Swimming_LEN_STEP ELSE Training_LEN_STEP

\* the number of positional parameters of cls.__init__ after self
InitArity(cls) ==
    CASE cls = "Running"       -> 3
      [] cls = "SportsWalking" -> 4
      [] cls = "Swimming"      -> 5

\* the body of cls.__init__: the arguments become the attributes, in order
Attributes(cls, data) ==
    CASE cls = "Running" ->
           [t |-> "obj", cls |-> cls, action |-> data[1],
            duration |-> data[2], weight |-> data[3]]
      [] cls = "SportsWalking" ->
           [t |-> "obj", cls |-> cls, action |-> data[1],
            duration |-> data[2], weight |-> data[3],
            height |-> data[4]]
      [] cls = "Swimming" ->
           [t |-> "obj", cls |-> cls, action |-> data[1],
            duration |-> data[2], weight |-> data[3],
            length_pool |-> data[4], count_pool |-> data[5]]

\* mutant: surplus readings are ignored
Construct_lenient(cls, data) ==
    IF Len(data) < InitArity(cls) THEN Raise("TypeError")
    ELSE Attributes(cls, data)

\* cls(*data): a call with a number of arguments other than the
\* constructor's raises TypeError before the body runs
Construct(cls, data) ==
    IF Len(data) # InitArity(cls) THEN Raise("TypeError")
    ELSE Attributes(cls, data)

get_distance(self) ==
    PyTrueDiv(PyMul(self.action, LEN_STEP(self)), PyInt(M_IN_KM))

Training_get_mean_speed(self) == PyTrueDiv(get_distance(self), self.duration)

\* mutant: hours per kilometre instead of kilometres per hour
Swimming_get_mean_speed_inverted(self) ==
    PyTrueDiv(self.duration,
              PyTrueDiv(PyMul(self.length_pool, self.count_pool),
                        PyInt(M_IN_KM)))

Swimming_get_mean_speed(self) ==
    PyTrueDiv(PyTrueDiv(PyMul(self.length_pool, self.count_pool),
                        PyInt(M_IN_KM)),
              self.duration)

\* mutant: Swimming does not override get_mean_speed
get_mean_speed_base(self) == Training_get_mean_speed(self)

\* method resolution: Swimming overrides get_mean_speed
get_mean_speed(self) ==
    IF self.cls = "Swimming" THEN Swimming_get_mean_speed(self)
    ELSE Training_get_mean_speed(self)

Running_get_spent_calories(self) ==
    PyMul(PyMul(PyTrueDiv(PyMul(PySub(PyMul(PyInt(RUN_COEFF_CAL_1),
                                            get_mean_speed(self)),
                                      PyInt(RUN_COEFF_CAL_2)),
                                self.weight),
                          PyInt(M_IN_KM)),
                self.duration),
          PyInt(MINUTES_IN_HOUR))

\* speed ** WLK_COEFF_CAL_2
PyPow(a, n) == CASE n = 2 -> PySquare(a)

\* mutant: true division by the height
SportsWalking_get_spent_calories_truediv(self) ==
    PyMul(PyMul(PyAdd(PyMul(WLK_COEFF_CAL_1, self.weight),
                      PyMul(PyMul(PyTrueDiv(PyPow(get_mean_speed(self),
                                                  WLK_COEFF_CAL_2),
                                            self.height),
                                  WLK_COEFF_CAL_3),
                            self.weight)),
                self.duration),
          PyInt(MINUTES_IN_HOUR))

SportsWalking_get_spent_calories(self) ==
    PyMul(PyMul(PyAdd(PyMul(WLK_COEFF_CAL_1, self.weight),
                      PyMul(PyMul(PyFloorDiv(PyPow(get_mean_speed(self),
                                                   WLK_COEFF_CAL_2),
                                             self.height),
                                  WLK_COEFF_CAL_3),
                            self.weight)),
                self.duration),
          PyInt(MINUTES_IN_HOUR))

Swimming_get_spent_calories(self) ==
    PyMul(PyMul(PyAdd(get_mean_speed(self), SWM_COEFF_CAL_1),
                PyInt(SWM_COEFF_CAL_2)),
          self.weight)

get_spent_calories(self) ==
    CASE self.cls = "Running"       -> Running_get_spent_calories(self)
      [] self.cls = "SportsWalking" -> SportsWalking_get_spent_calories(self)
      [] self.cls = "Swimming"      -> Swimming_get_spent_calories(self)

\* InfoMessage(...): the arguments are evaluated in order and the first
\* exception raised among them is the call's
InfoMessage(training_type, duration, distance, speed, calories) ==
    IF IsExc(distance) THEN distance
    ELSE IF IsExc(speed) THEN speed
    ELSE IF IsExc(calories) THEN calories
    ELSE [t |-> "InfoMessage", training_type |-> training_type,
          duration |-> duration, distance |-> distance,
          speed |-> speed, calories |-> calories]

show_training_info(self) ==
    InfoMessage(self.cls, self.duration, get_distance(self),
                get_mean_speed(self), get_spent_calories(self))

\* TEXT.format(**asdict(self)): the fields of the fixed template
get_message(self) ==
    [training_type |-> self.training_type,
     duration |-> Fixed3(self.duration),
     distance |-> Fixed3(self.distance),
     speed    |-> Fixed3(self.speed),
     calories |-> Fixed3(self.calories)]

\* mutant: the constructors of RUN and WLK exchanged
workout_types_swapped ==
    [k \in {SWM, RUN, WLK} |->
        CASE k = SWM -> "Swimming"
          [] k = RUN -> "SportsWalking"
          [] k = WLK -> "Running"]

workout_types ==
    [k \in {SWM, RUN, WLK} |->
        CASE k = SWM -> "Swimming"
          [] k = RUN -> "Running"
          [] k = WLK -> "SportsWalking"]

\* mutant: the tag is looked up without regard to case
read_package_caseless(workout_type, data) ==
    IF workout_type \in DOMAIN workout_types
    THEN Construct(workout_types[workout_type], data)
    ELSE IF workout_type = "swm" THEN Construct("Swimming", data)
    ELSE Raise("ValueError")

read_package(workout_type, data) ==
    IF workout_type \in DOMAIN workout_types
    THEN Construct(workout_types[workout_type], data)
    ELSE Raise("ValueError")

(***************************************************************************)
(* The script: for workout_type, data in packages: training =              *)
(* read_package(workout_type, data); main(training).                       *)
(*                                                                         *)
(*   packages  the input list of (workout_type, data) entries              *)
(*   idx       the position of the for loop in packages (1-based)          *)
(*   pc        "for": at the loop head; "main": main(training) entered;    *)
(*             "print": info computed, about to print; "done": loop left;  *)
(*             "raised": the run ended on an uncaught exception            *)
(*   training  the object last returned by read_package                    *)
(*   info      the InfoMessage last returned by show_training_info         *)
(*   output    the lines written to standard output                        *)
(*   error     the class of the uncaught exception, or "none"              *)
(***************************************************************************)
VARIABLES packages, idx, pc, training, info, output, error

vars == <<packages, idx, pc, training, info, output, error>>

MaxPackages == 3
MaxArgs == 6
MaxCalls == 2

Ints(s) == [i \in DOMAIN s |-> PyInt(s[i])]

Package(workout_type, data) == [workout_type |-> workout_type, data |-> data]

SeqsUpTo(S, n) == UNION {[1..k -> S] : k \in 0..n}

\* the three sample packages of the script, and one entry for each way an
\* entry can fail: an unknown tag, a wrong number of readings, a zero height
BatchEntries ==
    {Package(SWM, Ints(<<720, 1, 80, 25, 40>>)),
     Package(RUN, Ints(<<15000, 1, 75>>)),
     Package(WLK, Ints(<<9000, 1, 75, 180>>)),
     Package("XYZ", Ints(<<15000, 1, 75>>)),
     Package(RUN, Ints(<<15000, 1>>)),
     Package(WLK, Ints(<<9000, 1, 75, 0>>))}

Init ==
    /\ packages \in SeqsUpTo(BatchEntries, MaxPackages)
    /\ idx = 1
    /\ pc = "for"
    /\ training = None
    /\ info = None
    /\ output = <<>>
    /\ error = "none"

\* mutant: the loop drops the failing entry and goes on
UncaughtSkipped(exc) ==
    /\ idx' = idx + 1
    /\ pc' = "for"
    /\ UNCHANGED <<packages, training, info, output, error>>

\* an exception nobody catches ends the run
Uncaught(exc) ==
    /\ error' = exc.name
    /\ pc' = "raised"
    /\ UNCHANGED <<packages, idx, training, info, output>>

\* read_package raised, or its return value is bound to training
Returned(r) ==
    IF IsExc(r) THEN Uncaught(r)
    ELSE /\ training' = r
         /\ pc' = "main"
         /\ UNCHANGED <<packages, idx, info, output, error>>

\* training = read_package(workout_type, data)
ReadPackage ==
    /\ pc = "for"
    /\ idx <= Len(packages)
    /\ Returned(read_package(packages[idx].workout_type, packages[idx].data))

\* mutant: reporting resets the step counter of the record
ShownConsuming(r) ==
    IF IsExc(r) THEN Uncaught(r)
    ELSE /\ info' = r
         /\ training' = [training EXCEPT !.action = PyInt(0)]
         /\ pc' = "print"
         /\ UNCHANGED <<packages, idx, output, error>>

\* show_training_info raised, or its return value is bound to info; the
\* method assigns to no attribute of the record
Shown(r) ==
    IF IsExc(r) THEN Uncaught(r)
    ELSE /\ info' = r
         /\ pc' = "print"
         /\ UNCHANGED <<packages, idx, training, output, error>>

\* info = training.show_training_info()
ShowTrainingInfo ==
    /\ pc = "main"
    /\ Shown(show_training_info(training))

\* mutant: the new line is put before the lines already written
PrintMessageFirst ==
    /\ pc = "print"
    /\ output' = <<get_message(info)>> \o output
    /\ idx' = idx + 1
    /\ pc' = "for"
    /\ UNCHANGED <<packages, training, info, error>>

\* print(info.get_message()); main returns and the loop takes the next entry
PrintMessage ==
    /\ pc = "print"
    /\ output' = Append(output, get_message(info))
    /\ idx' = idx + 1
    /\ pc' = "for"
    /\ UNCHANGED <<packages, training, info, error>>

\* packages is exhausted
LoopExit ==
    /\ pc = "for"
    /\ idx > Len(packages)
    /\ pc' = "done"
    /\ UNCHANGED <<packages, idx, training, info, output, error>>

Next == ReadPackage \/ ShowTrainingInfo \/ PrintMessage \/ LoopExit

Spec == Init /\ [][Next]_vars

(***************************************************************************)
(* A caller of the module: one record built by read_package, then          *)
(* main(training) on that same record, up to MaxCalls lines.               *)
(***************************************************************************)
Actions == {PyInt(0), PyInt(91), PyInt(9000), PyInt(15000)}

Durations == {PyInt(1), PyInt(7), FloatLiteral(15, 1), PyInt(0)}

Weights == {PyInt(0), PyInt(75), FloatLiteral(625, 1)}

Heights == {PyInt(180), PyInt(2), PyInt(0), PyInt(-3)}

LengthPools == {PyInt(25), FloatLiteral(333, 1)}

CountPools == {PyInt(0), PyInt(40)}

Tags == {SWM, RUN, WLK, "XYZ", "swm", ""}

CalcEntries ==
    {Package(RUN, <<a, d, w>>) : a \in Actions, d \in Durations, w \in Weights}
    \cup {Package(WLK, <<a, d, w, h>>) :
            a \in Actions, d \in Durations, w \in Weights, h \in Heights}
    \cup {Package(SWM, <<a, d, w, l, c>>) :
            a \in Actions, d \in Durations, w \in Weights,
            l \in LengthPools, c \in CountPools}
    \cup {Package(k, data) :
            k \in Tags, data \in SeqsUpTo({PyInt(1), PyInt(2)}, MaxArgs)}

InitCalc ==
    /\ packages \in {<<e>> : e \in CalcEntries}
    /\ idx = 1
    /\ pc = "for"
    /\ training = None
    /\ info = None
    /\ output = <<>>
    /\ error = "none"

\* print(info.get_message()); main returns and the caller keeps the record
PrintAndReturn ==
    /\ pc = "print"
    /\ Len(output) < MaxCalls
    /\ output' = Append(output, get_message(info))
    /\ pc' = "main"
    /\ UNCHANGED <<packages, idx, training, info, error>>

NextCalc == ReadPackage \/ ShowTrainingInfo \/ PrintAndReturn

SpecCalc == InitCalc /\ [][NextCalc]_vars

(***************************************************************************)
(* The claims.  Entry is the package the run is at; EntryResult is what    *)
(* dispatching and computing an entry gives: an InfoMessage or the         *)
(* exception raised on the way.                                            *)
(***************************************************************************)
Entry == packages[idx]

Dispatched(r) == IF IsExc(r) THEN r ELSE show_training_info(r)

EntryResult(e) == Dispatched(read_package(e.workout_type, e.data))

\* EntryResult of every entry of a batch, computed once
BatchResult == [e \in BatchEntries |-> EntryResult(e)]

Succeeds(e) == ~IsExc(BatchResult[e])

\* the line written for an entry that succeeds
BatchLine == [e \in BatchEntries |->
                 IF Succeeds(e) THEN get_message(BatchResult[e]) ELSE None]

Positive(x) == IF x.t = "int" THEN x.v > 0 ELSE x.s = 1 /\ x.m # <<>>

NonNegative(x) == IF x.t = "int" THEN x.v >= 0 ELSE x.s = 1 \/ x.m = <<>>

\* the invariants of the data model: durationHours > 0, actionCount >= 0,
\* and poolLengthCount >= 0 for Swimming
ValidRecord(r) ==
    /\ r.t = "obj"
    /\ Positive(r.duration)
    /\ NonNegative(r.action)
    /\ (r.cls = "Swimming" => NonNegative(r.count_pool))

(* C1: read_package maps the tag to the record variant: "SWM" with 5       *)
(* arguments gives a Swimming record, "RUN" with 3 a Running record, "WLK" *)
(* with 4 a SportsWalking record, the arguments assigned in order to       *)
(* action, duration, weight, then height, or length_pool and count_pool.   *)
DispatchConstructs ==
    pc # "for" =>
        /\ (Entry.workout_type = "SWM" /\ Len(Entry.data) = 5) =>
              training = [t |-> "obj", cls |-> "Swimming",
                          action |-> Entry.data[1], duration |-> Entry.data[2],
                          weight |-> Entry.data[3],
                          length_pool |-> Entry.data[4],
                          count_pool |-> Entry.data[5]]
        /\ (Entry.workout_type = "RUN" /\ Len(Entry.data) = 3) =>
              training = [t |-> "obj", cls |-> "Running",
                          action |-> Entry.data[1], duration |-> Entry.data[2],
                          weight |-> Entry.data[3]]
        /\ (Entry.workout_type = "WLK" /\ Len(Entry.data) = 4) =>
              training = [t |-> "obj", cls |-> "SportsWalking",
                          action |-> Entry.data[1], duration |-> Entry.data[2],
                          weight |-> Entry.data[3], height |-> Entry.data[4]]

DispatchConstructsWitness ==
    /\ pc = "main"
    /\ Entry.workout_type = "WLK"
    /\ training.t = "obj"
    /\ training.cls = "SportsWalking"
    /\ training.height = PyInt(180)
    /\ training.action = PyInt(9000)

(* C2: for every tag other than exactly "SWM", "RUN", "WLK", and every     *)
(* argument sequence, read_package raises ValueError, no record is         *)
(* constructed and no line is written.                                     *)
UnsupportedKindRaises ==
    (pc # "for" /\ Entry.workout_type \notin {"SWM", "RUN", "WLK"}) =>
        /\ pc = "raised"
        /\ error = "ValueError"
        /\ training = None
        /\ info = None
        /\ output = <<>>

UnsupportedKindWitness ==
    /\ pc = "raised"
    /\ error = "ValueError"
    /\ Entry.workout_type = "swm"
    /\ Len(Entry.data) = 5

(* C3: when every entry of the input dispatches and computes, the run      *)
(* writes one line per entry and the i-th line is the summary of the i-th  *)
(* entry: at every point the output is the summaries of the entries        *)
(* before the loop position, in input order, and all of them at the end.   *)
InOrderOutput ==
    (\A j \in DOMAIN packages : Succeeds(packages[j])) =>
        /\ pc # "raised"
        /\ error = "none"
        /\ idx <= Len(packages) + 1
        /\ Len(output) = idx - 1
        /\ (pc = "done" => Len(output) = Len(packages))
        /\ \A j \in DOMAIN output : output[j] = BatchLine[packages[j]]

InOrderOutputWitness ==
    /\ pc = "done"
    /\ packages = <<Package(SWM, Ints(<<720, 1, 80, 25, 40>>)),
                    Package(RUN, Ints(<<15000, 1, 75>>)),
                    Package(WLK, Ints(<<9000, 1, 75, 180>>))>>
    /\ Len(output) = 3
    /\ output[1].training_type = "Swimming"
    /\ output[2].training_type = "Running"
    /\ output[3].training_type = "SportsWalking"

\* the position of the first entry that raises, 0 when none does
FirstFailure ==
    IF \A j \in DOMAIN packages : Succeeds(packages[j]) THEN 0
    ELSE CHOOSE k \in DOMAIN packages :
            /\ ~Succeeds(packages[k])
            /\ \A j \in 1..(k - 1) : Succeeds(packages[j])

(* C4: fail-fast batch: if the k-th entry raises, the run ends there: no   *)
(* line is ever written for entry k or a later one, no later entry is      *)
(* dispatched, and the output is the lines of entries 1..k-1 in order.     *)
FailFast ==
    FirstFailure # 0 =>
        /\ idx <= FirstFailure
        /\ Len(output) < FirstFailure
        /\ pc # "done"
        /\ \A j \in DOMAIN output : output[j] = BatchLine[packages[j]]
        /\ pc = "raised" =>
              /\ idx = FirstFailure
              /\ error = BatchResult[packages[idx]].name
              /\ Len(output) = FirstFailure - 1
              /\ ~ENABLED Next

FailFastWitness ==
    /\ pc = "raised"
    /\ error = "ValueError"
    /\ Len(packages) = 3
    /\ idx = 2
    /\ Len(output) = 1
    /\ Succeeds(packages[3])

(* C5 as claimed: every record built by read_package whose fields satisfy  *)
(* durationHours > 0, actionCount >= 0 and poolLengthCount >= 0 computes   *)
(* and renders its summary without any error, whatever its weight, height  *)
(* and pool length.                                                        *)
OnlyDispatchErrors ==
    ValidRecord(training) => (pc # "raised" /\ error = "none")

(* C5 as amended: the same, for SportsWalking records of nonzero height    *)
(* (a zero height raises ZeroDivisionError in the floor division).         *)
NoErrorWithNonzeroHeight ==
    (/\ ValidRecord(training)
     /\ (training.cls = "SportsWalking" => ~IsZero(training.height)))
    => (pc # "raised" /\ error = "none")

NoErrorWithNonzeroHeightWitness ==
    /\ pc = "main"
    /\ Len(output) = 1
    /\ training.cls = "SportsWalking"
    /\ training.height = PyInt(-3)
    /\ training.weight = PyInt(0)
    /\ training.action = PyInt(0)

(* C6: for a recognised tag with a number of arguments other than the      *)
(* constructor's (3 for RUN, 4 for WLK, 5 for SWM) read_package raises the *)
(* construction-time TypeError, not the unsupported-kind ValueError; no    *)
(* record is returned and no line is written.                              *)
ArityMismatchRaises ==
    (/\ pc # "for"
     /\ Entry.workout_type \in {"SWM", "RUN", "WLK"}
     /\ Len(Entry.data) # [RUN |-> 3, WLK |-> 4, SWM |-> 5][Entry.workout_type])
    => /\ pc = "raised"
       /\ error = "TypeError"
       /\ error # "ValueError"
       /\ training = None
       /\ info = None
       /\ output = <<>>

ArityMismatchWitness ==
    /\ pc = "raised"
    /\ error = "TypeError"
    /\ Entry.workout_type = "SWM"
    /\ Len(Entry.data) = 6

(* C7: the mean speed of a Swimming record is                              *)
(* length_pool * count_pool / 1000 / duration, and is the same for every   *)
(* record with these three fields, whatever its action and weight.         *)
SwimSpeedIndependent ==
    (pc = "print" /\ training.cls = "Swimming") =>
        /\ info.speed =
              PyTrueDiv(PyTrueDiv(PyMul(training.length_pool,
                                        training.count_pool), PyInt(1000)),
                        training.duration)
        /\ \A a \in Actions, w \in Weights :
              get_mean_speed([training EXCEPT !.action = a, !.weight = w])
                 = info.speed

SwimSpeedWitness ==
    /\ pc = "print"
    /\ training.cls = "Swimming"
    /\ training.action = PyInt(15000)
    /\ training.count_pool = PyInt(40)
    /\ training.length_pool = PyInt(25)
    /\ training.duration = PyInt(7)
    /\ get_distance(training) # get_distance([training EXCEPT !.action = PyInt(91)])

(* C8: show_training_info and get_message called again on the same record  *)
(* give the same summary and the same line as the call before.             *)
IdempotentSummary ==
    [][/\ (pc = "main" /\ pc' = "print" /\ output # <<>>) =>
             /\ info' = info
             /\ get_message(info') = output[Len(output)]
       /\ (Len(output') > Len(output) /\ output # <<>>) =>
             output'[Len(output')] = output[Len(output)]]_vars

IdempotentSummaryWitness ==
    /\ pc = "main"
    /\ Len(output) = 2
    /\ training.cls = "SportsWalking"
    /\ training.action = PyInt(9000)
    /\ output[1] = output[2]

\* is q the floor of sq / h, h nonzero
IsFloorOfQuotient(q, sq, h) ==
    /\ FFloor(q) = q
    /\ IF h.s = 1
       THEN /\ FCmp(FMul(q, h), sq) <= 0
            /\ FCmp(sq, FMul(FAdd(q, FromInt(1)), h)) < 0
       ELSE /\ FCmp(FMul(q, h), sq) >= 0
            /\ FCmp(sq, FMul(FAdd(q, FromInt(1)), h)) > 0

WalkingCalories(q, r) ==
    PyMul(PyMul(PyAdd(PyMul(FloatLiteral(35, 3), r.weight),
                      PyMul(PyMul(q, FloatLiteral(29, 3)), r.weight)),
                r.duration),
          PyInt(60))

(* C9: SportsWalking calories are                                          *)
(* (0.035 * weight + floor(speed^2 / height) * 0.029 * weight)             *)
(* * duration * 60, the square taken first and floored after the division  *)
(* by the height; when 0 <= speed^2 < height the speed term is 0 and the   *)
(* calories are 0.035 * weight * duration * 60.                            *)
WalkingFloorDivision ==
    (pc = "print" /\ training.cls = "SportsWalking") =>
        \E q \in {PyFloorDiv(PySquare(info.speed), training.height)} :
            /\ IsFloorOfQuotient(q, FMul(info.speed, info.speed),
                                 ToFloat(training.height))
            /\ info.calories = WalkingCalories(q, training)
            /\ (/\ Positive(training.height)
                /\ FCmp(FMul(info.speed, info.speed),
                        ToFloat(training.height)) < 0)
               => /\ q.m = <<>>
                  /\ info.calories =
                        PyMul(PyMul(PyMul(FloatLiteral(35, 3), training.weight),
                                    training.duration), PyInt(60))

WalkingFloorDivisionWitness ==
    /\ pc = "print"
    /\ training.cls = "SportsWalking"
    /\ training.action = PyInt(9000)
    /\ training.duration = PyInt(1)
    /\ training.weight = PyInt(75)
    /\ training.height = PyInt(180)
    /\ info.speed = FloatLiteral(585, 2)
    /\ Fixed3(info.calories) = [neg |-> FALSE, thousandths |-> 157500]

\* step length of the kind, in metres
StepLength(cls) ==
    IF cls = "Swimming" THEN FloatLiteral(138, 2) ELSE FloatLiteral(65, 2)

\* |a - b| <= |b| * 2^-51
WithinRounding(a, b) ==
    FCmp(Float(1, FSub(a, b).m, FSub(a, b).e),
         Float(1, b.m, IF b.m = <<>> THEN 0 ELSE b.e - 51)) <= 0

\* distance = action * step length / 1000 for every kind, 9.75 and 5.85 for
\* 15000 and 9000 steps, and independent of the pool fields for Swimming
StepBasedDistance ==
    /\ info.distance =
          PyTrueDiv(PyMul(training.action, StepLength(training.cls)),
                    PyInt(1000))
    /\ (training.cls # "Swimming" /\ training.action = PyInt(15000))
          => info.distance = FloatLiteral(975, 2)
    /\ (training.cls # "Swimming" /\ training.action = PyInt(9000))
          => info.distance = FloatLiteral(585, 2)
    /\ training.cls = "Swimming" =>
          \A l \in LengthPools, c \in CountPools :
              get_distance([training EXCEPT !.length_pool = l,
                                            !.count_pool = c])
                 = info.distance

(* C10 as claimed: distance is action * step length / 1000 (0.65 for       *)
(* Running and SportsWalking, 1.38 for Swimming), and for Running and      *)
(* SportsWalking mean speed * duration equals the distance.                *)
DistanceIsSpeedTimesDuration ==
    pc = "print" =>
        /\ StepBasedDistance
        /\ training.cls # "Swimming" =>
              PyMul(info.speed, training.duration) = info.distance

(* C10 as amended: distance is action * step length / 1000, and for        *)
(* Running and SportsWalking mean speed is distance / duration, so that    *)
(* mean speed * duration is the distance up to the rounding of the two     *)
(* float operations (a relative difference of at most 2^-51).              *)
DistanceStepBased ==
    pc = "print" =>
        /\ StepBasedDistance
        /\ training.cls # "Swimming" =>
              /\ info.speed = PyTrueDiv(info.distance, training.duration)
              /\ WithinRounding(PyMul(info.speed, training.duration),
                                info.distance)

DistanceStepBasedWitness ==
    /\ pc = "print"
    /\ training.cls = "Swimming"
    /\ training.action = PyInt(15000)
    /\ training.length_pool = PyInt(25)
    /\ training.count_pool = PyInt(40)
    /\ training.duration = PyInt(1)
    /\ info.distance = FloatLiteral(207, 1)
    /\ PyMul(info.speed, training.duration) = FromInt(1)

====
